---- MODULE Spec2Model ----
(***************************************************************************)
(* Model of server.py: the FastAPI handlers of the IntelliOS Firestore API *)
(* over the "DDNA" collection.  The collection is the only persistent      *)
(* state.  A handler takes one step per store call, so that requests       *)
(* served by different server processes attached to the same collection    *)
(* interleave at the store calls.  What a handler computes after a store   *)
(* call from its request and its locals alone belongs to that call's step. *)
(***************************************************************************)
EXTENDS Integers, FiniteSets, Sequences, TLC

\* ------------------------------------------------------------------ bounds
NumProcs == 2
MaxRequests == 3

Procs == 1..NumProcs
Usernames == {"alice", "bob"}
SignupProfiles ==
    { [password |-> "pw1", name |-> "Alice", email |-> "a@x.com"],
      [password |-> "pw2", name |-> "Alicia", email |-> "a@y.org"] }
Passwords == {sp.password : sp \in SignupProfiles}
WorkspaceNames == {"proj1", "proj2"}
States == { [x |-> 1], [y |-> 2] }

\* ------------------------------------------------------------ HTTP status
HTTP_OK == 200
HTTP_NOT_FOUND == 404
HTTP_ERROR == 500

\* ----------------------------------------------------------- Python values
EmptyDict == << >>
None == {}
Some(v) == {v}

\* dict.get(key, default)
DictGet(d, key, default) == IF key \in DOMAIN d THEN d[key] ELSE default

\* dict.get(key): the value, or Python's None, which equals no str
DictGetOrNone(d, key) == IF key \in DOMAIN d THEN Some(d[key]) ELSE None

\* d[key] = value on a copy of d
DictSetItem(d, key, value) ==
    [k \in DOMAIN d \cup {key} |-> IF k = key THEN value ELSE d[k]]

\* del d[key] on a copy of d
DictDelItem(d, key) == [k \in DOMAIN d \ {key} |-> d[k]]

\* ------------------------------------------------------- the document store
\* db.collection("DDNA").document(id).get(): a snapshot with .exists, .to_dict()
DocumentGet(db, id) ==
    [exists |-> id \in DOMAIN db,
     data   |-> IF id \in DOMAIN db THEN db[id] ELSE EmptyDict]

\* document(id).set(data): creates or replaces the whole document
DocumentSet(db, id, data) == DictSetItem(db, id, data)

\* document(id).update(fields): replaces the named fields of an existing document
DocumentUpdate(db, id, fields) ==
    [db EXCEPT ![id] =
        [f \in DOMAIN db[id] \cup DOMAIN fields |->
            IF f \in DOMAIN fields THEN fields[f] ELSE db[id][f]]]

\* the exception a failed store call raises
StoreError == [kind |-> "Exception", text |-> "store unavailable"]
\* update() of a document that does not exist
StoreNotFound == [kind |-> "Exception", text |-> "404 No document to update"]

\* ------------------------------------------------------ requests, responses
LoginRequest(u, pw) == [op |-> "login", username |-> u, password |-> pw]
SignupRequest(u, sp) ==
    [op |-> "signup", username |-> u, password |-> sp.password,
     name |-> sp.name, email |-> sp.email]
CreateWorkspaceRequest(u, w, s) ==
    [op |-> "create_update_workspace", username |-> u, workspace_name |-> w,
     state |-> s]
GetWorkspacesRequest(u) == [op |-> "get_all_workspaces", username |-> u]
DeleteWorkspaceRequest(u, w) ==
    [op |-> "delete_workspace", username |-> u, workspace_name |-> w]
RootRequest == [op |-> "read_root"]

LoginResponse(status, message, workspaces) ==
    [kind |-> "LoginResponse", code |-> HTTP_OK, status |-> status,
     message |-> message, workspaces |-> workspaces]
SignupResponse(status, message) ==
    [kind |-> "SignupResponse", code |-> HTTP_OK, status |-> status,
     message |-> message]
CreateWorkspaceResponse(status, message) ==
    [kind |-> "CreateWorkspaceResponse", code |-> HTTP_OK, status |-> status,
     message |-> message]
GetWorkspacesResponse(status, workspaces) ==
    [kind |-> "GetWorkspacesResponse", code |-> HTTP_OK, status |-> status,
     workspaces |-> workspaces]
DeleteWorkspaceResponse(status, message) ==
    [kind |-> "DeleteWorkspaceResponse", code |-> HTTP_OK, status |-> status,
     message |-> message]
RootResponse ==
    [kind |-> "dict", code |-> HTTP_OK, status |-> "online",
     message |-> "IntelliOS API is running"]
HTTPException(status_code, detail) ==
    [kind |-> "HTTPException", code |-> status_code, detail |-> detail]

NoRequest == [op |-> "none"]
NoResponse == [kind |-> "none"]
NoLocals == << >>
NoCalls == [reads |-> 0, writes |-> 0, failed |-> "none"]

\* ------------------------------------------------------------------- state
VARIABLES
    store,   \* the DDNA collection: document id -> document (a dict)
    pc,      \* per process: "idle", or the store write its request is about to make
    req,     \* per process: the request it is handling (NoRequest when idle)
    local,   \* per process: the handler's locals between its read and its write
    calls,   \* per process: the store calls its request has made so far
    nreq,    \* number of requests begun so far
    done,    \* history: the request completed last, with its response
    prev,    \* history: the request completed before that one, when it was a
             \* signup, upsert or delete answered with success (else NoRequest)
    acked    \* history: per username, the workspaces map its acknowledged
             \* requests amount to when applied one after the other

vars == <<store, pc, req, local, calls, nreq, done, prev, acked>>

NoDone == [req |-> NoRequest, resp |-> NoResponse, calls |-> NoCalls]

\* The collection outlives the server process: at start-up it is empty, or it
\* holds what earlier requests left in it (here: alice signed up, then saved proj1).
InitialStores ==
    { EmptyDict,
      [u \in {"alice"} |->
          [username |-> "alice", password |-> "pw1", name |-> "Alice",
           email |-> "a@x.com",
           workspaces |-> [w \in {"proj1"} |-> [x |-> 1]]]] }

Init ==
    /\ store \in InitialStores
    /\ pc = [p \in Procs |-> "idle"]
    /\ req = [p \in Procs |-> NoRequest]
    /\ local = [p \in Procs |-> NoLocals]
    /\ calls = [p \in Procs |-> NoCalls]
    /\ nreq = 0
    /\ done = NoDone
    /\ prev = NoRequest
    /\ acked = [u \in Usernames |->
                   IF u \in DOMAIN store THEN store[u].workspaces ELSE EmptyDict]

\* Whether a store call succeeds: any call may fail (network, quota, outage).
StoreOutcomes == BOOLEAN

\* The calls of a request after one more store call, a "read" or a "write".
Counted(c, call, ok) ==
    [reads  |-> IF call = "read" THEN c.reads + 1 ELSE c.reads,
     writes |-> IF call = "write" THEN c.writes + 1 ELSE c.writes,
     failed |-> IF ok THEN c.failed ELSE call]

\* A response body with status "success".
Succeeded(out) ==
    /\ out.kind \notin {"none", "HTTPException"}
    /\ out.code = HTTP_OK
    /\ out.status = "success"

WriteOps == {"signup", "create_update_workspace", "delete_workspace"}

\* The workspaces map of request.username once the response out is counted in.
Acknowledge(a, request, out) ==
    IF ~Succeeded(out) THEN a
    ELSE IF request.op = "signup"
    THEN [a EXCEPT ![request.username] = EmptyDict]
    ELSE IF request.op = "create_update_workspace"
    THEN [a EXCEPT ![request.username] =
             DictSetItem(@, request.workspace_name, request.state)]
    ELSE IF request.op = "delete_workspace"
    THEN [a EXCEPT ![request.username] = DictDelItem(@, request.workspace_name)]
    ELSE a

\* A process takes a new request.
Begin(p) ==
    /\ pc[p] = "idle"
    /\ nreq < MaxRequests
    /\ nreq' = nreq + 1

\* The handler returns (or raises) out: the request is complete.
Return(p, request, out, c) ==
    /\ pc' = [pc EXCEPT ![p] = "idle"]
    /\ req' = [req EXCEPT ![p] = NoRequest]
    /\ local' = [local EXCEPT ![p] = NoLocals]
    /\ calls' = [calls EXCEPT ![p] = NoCalls]
    /\ done' = [req |-> request, resp |-> out, calls |-> c]
    /\ prev' = IF Succeeded(done.resp) /\ done.req.op \in WriteOps
               THEN done.req ELSE NoRequest
    /\ acked' = Acknowledge(acked, request, out)

\* The handler goes on to its store write.
Continue(p, request, next, locals, c) ==
    /\ pc' = [pc EXCEPT ![p] = next]
    /\ req' = [req EXCEPT ![p] = request]
    /\ local' = [local EXCEPT ![p] = locals]
    /\ calls' = [calls EXCEPT ![p] = c]
    /\ UNCHANGED <<done, prev, acked>>

\* ---------------------------------------------------------------- read_root
read_root(p) ==
    /\ Begin(p)
    /\ Return(p, RootRequest, RootResponse, NoCalls)
    /\ UNCHANGED store

\* -------------------------------------------------------------------- login
\* mutant: the password comparison is left out
login_return_unchecked(doc, request) ==
    IF ~doc.exists
    THEN LoginResponse("error", "Username not found", None)
    ELSE LoginResponse("success", "Successful",
                       Some(DictGet(doc.data, "workspaces", EmptyDict)))

login_return(doc, request) ==
    IF ~doc.exists
    THEN LoginResponse("error", "Username not found", None)
    ELSE IF DictGetOrNone(doc.data, "password") # Some(request.password)
    THEN LoginResponse("error", "Incorrect Password", None)
    ELSE LoginResponse("success", "Successful",
                       Some(DictGet(doc.data, "workspaces", EmptyDict)))

login_except(e) == HTTPException(HTTP_ERROR, "Login failed: " \o e.text)

login(p, u, pw) ==
    LET request == LoginRequest(u, pw) IN
    /\ Begin(p)
    /\ \E ok \in StoreOutcomes :
          IF ok
          THEN Return(p, request, login_return(DocumentGet(store, u), request),
                      Counted(calls[p], "read", TRUE))
          ELSE Return(p, request, login_except(StoreError),
                      Counted(calls[p], "read", FALSE))
    /\ UNCHANGED store

\* ------------------------------------------------------------------- signup
\* mutant: the existence check is left out
signup_exists_skipped(doc) == FALSE

signup_exists(doc) == doc.exists

\* mutant: the name is stored in the password field
user_data_swapped(request) ==
    [username |-> request.username, password |-> request.name,
     name |-> request.password, email |-> request.email,
     workspaces |-> EmptyDict]

user_data(request) ==
    [username |-> request.username, password |-> request.password,
     name |-> request.name, email |-> request.email, workspaces |-> EmptyDict]

signup_except(e) == HTTPException(HTTP_ERROR, "Signup failed: " \o e.text)

signup_get(p, u, sp) ==
    LET request == SignupRequest(u, sp) IN
    /\ Begin(p)
    /\ \E ok \in StoreOutcomes :
          IF ~ok
          THEN Return(p, request, signup_except(StoreError),
                      Counted(calls[p], "read", FALSE))
          ELSE IF signup_exists(DocumentGet(store, u))
          THEN Return(p, request,
                      SignupResponse("error", "Username already exists"),
                      Counted(calls[p], "read", TRUE))
          ELSE Continue(p, request, "signup_set", [user_data |-> user_data(request)],
                        Counted(calls[p], "read", TRUE))
    /\ UNCHANGED store

signup_set(p) ==
    LET request == req[p] IN
    /\ pc[p] = "signup_set"
    /\ \E ok \in StoreOutcomes :
          IF ok
          THEN /\ store' = DocumentSet(store, request.username, local[p].user_data)
               /\ Return(p, request,
                         SignupResponse("success", "Account created successfully"),
                         Counted(calls[p], "write", TRUE))
          ELSE /\ store' = store
               /\ Return(p, request, signup_except(StoreError),
                         Counted(calls[p], "write", FALSE))
    /\ UNCHANGED nreq

\* ------------------------------------------------------ workspace endpoints
\* mutant: the missing account is reported as a server error
user_not_found_500 == HTTPException(HTTP_ERROR, "User not found")

user_not_found == HTTPException(HTTP_NOT_FOUND, "User not found")

\* mutant: no "except HTTPException" clause, every exception becomes a 500
workspace_except_all(e, prefix) ==
    HTTPException(HTTP_ERROR,
        prefix \o (IF e.kind = "HTTPException" THEN e.detail ELSE e.text))

\* except HTTPException as he: raise he / except Exception as e: raise 500
workspace_except(e, prefix) ==
    IF e.kind = "HTTPException" THEN e
    ELSE HTTPException(HTTP_ERROR, prefix \o e.text)

\* mutant: the update merges the map into the stored one, key by key
workspaces_update_merged(db, id, workspaces) ==
    DocumentUpdate(db, id,
        [workspaces |->
            [k \in DOMAIN db[id].workspaces \cup DOMAIN workspaces |->
                IF k \in DOMAIN workspaces THEN workspaces[k]
                ELSE db[id].workspaces[k]]])

\* doc_ref.update({"workspaces": workspaces})
workspaces_update(db, id, workspaces) ==
    DocumentUpdate(db, id, [workspaces |-> workspaces])

\* the second store call of create_update_workspace and of delete_workspace
update_step(p, success, prefix) ==
    LET request == req[p] IN
    /\ \E ok \in StoreOutcomes :
          IF ~ok
          THEN /\ store' = store
               /\ Return(p, request, workspace_except(StoreError, prefix),
                         Counted(calls[p], "write", FALSE))
          ELSE IF request.username \notin DOMAIN store
          THEN /\ store' = store
               /\ Return(p, request, workspace_except(StoreNotFound, prefix),
                         Counted(calls[p], "write", FALSE))
          ELSE /\ store' = workspaces_update(store, request.username,
                                             local[p].workspaces)
               /\ Return(p, request, success, Counted(calls[p], "write", TRUE))
    /\ UNCHANGED nreq

\* ---------------------------------------------------- create_update_workspace
create_except == "Error creating workspace: "

\* mutant: the new state is merged into the state already stored under the name
upserted_merged(workspaces, request) ==
    LET old == DictGet(workspaces, request.workspace_name, EmptyDict)
        new == request.state
    IN DictSetItem(workspaces, request.workspace_name,
           [f \in DOMAIN old \cup DOMAIN new |->
               IF f \in DOMAIN new THEN new[f] ELSE old[f]])

\* mutant: the map is rebuilt with the one entry
upserted_alone(workspaces, request) ==
    DictSetItem(EmptyDict, request.workspace_name, request.state)

\* workspaces[request.workspace_name] = request.state
upserted(workspaces, request) ==
    DictSetItem(workspaces, request.workspace_name, request.state)

create_update_workspace_get(p, u, w, s) ==
    LET request == CreateWorkspaceRequest(u, w, s)
        doc == DocumentGet(store, u)
    IN
    /\ Begin(p)
    /\ \E ok \in StoreOutcomes :
          IF ~ok
          THEN Return(p, request, workspace_except(StoreError, create_except),
                      Counted(calls[p], "read", FALSE))
          ELSE IF ~doc.exists
          THEN Return(p, request, workspace_except(user_not_found, create_except),
                      Counted(calls[p], "read", TRUE))
          ELSE Continue(p, request, "create_update_workspace_update",
                        [workspaces |->
                            upserted(DictGet(doc.data, "workspaces", EmptyDict),
                                     request)],
                        Counted(calls[p], "read", TRUE))
    /\ UNCHANGED store

create_update_workspace_update(p) ==
    /\ pc[p] = "create_update_workspace_update"
    /\ update_step(p,
          CreateWorkspaceResponse("success",
              "Workspace '" \o req[p].workspace_name
                  \o "' created/updated successfully"),
          create_except)

\* --------------------------------------------------------- get_all_workspaces
get_except == "Error getting workspaces: "

get_all_workspaces(p, u) ==
    LET request == GetWorkspacesRequest(u)
        doc == DocumentGet(store, u)
    IN
    /\ Begin(p)
    /\ \E ok \in StoreOutcomes :
          IF ~ok
          THEN Return(p, request, workspace_except(StoreError, get_except),
                      Counted(calls[p], "read", FALSE))
          ELSE IF ~doc.exists
          THEN Return(p, request, workspace_except(user_not_found, get_except),
                      Counted(calls[p], "read", TRUE))
          ELSE Return(p, request,
                      GetWorkspacesResponse("success",
                          DictGet(doc.data, "workspaces", EmptyDict)),
                      Counted(calls[p], "read", TRUE))
    /\ UNCHANGED store

\* ----------------------------------------------------------- delete_workspace
delete_except == "Error deleting workspace: "

workspace_not_found(request) ==
    HTTPException(HTTP_NOT_FOUND,
                  "Workspace '" \o request.workspace_name \o "' not found")

\* mutant: the entry is not removed
deleted_kept(workspaces, request) == workspaces

\* del workspaces[request.workspace_name]
deleted(workspaces, request) == DictDelItem(workspaces, request.workspace_name)

delete_workspace_get(p, u, w) ==
    LET request == DeleteWorkspaceRequest(u, w)
        doc == DocumentGet(store, u)
        workspaces == DictGet(doc.data, "workspaces", EmptyDict)
    IN
    /\ Begin(p)
    /\ \E ok \in StoreOutcomes :
          IF ~ok
          THEN Return(p, request, workspace_except(StoreError, delete_except),
                      Counted(calls[p], "read", FALSE))
          ELSE IF ~doc.exists
          THEN Return(p, request, workspace_except(user_not_found, delete_except),
                      Counted(calls[p], "read", TRUE))
          ELSE IF request.workspace_name \notin DOMAIN workspaces
          THEN Return(p, request,
                      workspace_except(workspace_not_found(request), delete_except),
                      Counted(calls[p], "read", TRUE))
          ELSE Continue(p, request, "delete_workspace_update",
                        [workspaces |-> deleted(workspaces, request)],
                        Counted(calls[p], "read", TRUE))
    /\ UNCHANGED store

delete_workspace_update(p) ==
    /\ pc[p] = "delete_workspace_update"
    /\ update_step(p,
          DeleteWorkspaceResponse("success",
              "Workspace '" \o req[p].workspace_name \o "' deleted successfully"),
          delete_except)

\* ------------------------------------------------------------ specifications
Step(p) ==
    \/ read_root(p)
    \/ \E u \in Usernames, pw \in Passwords : login(p, u, pw)
    \/ \E u \in Usernames, sp \in SignupProfiles : signup_get(p, u, sp)
    \/ signup_set(p)
    \/ \E u \in Usernames, w \in WorkspaceNames, s \in States :
          create_update_workspace_get(p, u, w, s)
    \/ create_update_workspace_update(p)
    \/ \E u \in Usernames : get_all_workspaces(p, u)
    \/ \E u \in Usernames, w \in WorkspaceNames : delete_workspace_get(p, u, w)
    \/ delete_workspace_update(p)

\* Requests of any number of processes interleave at their store calls.
Next == \E p \in Procs : Step(p)

Spec == Init /\ [][Next]_vars

\* One request at a time: a request begins only when no other is in progress.
Alone(p) == \A q \in Procs \ {p} : pc[q] = "idle"

SeqNext ==
    \E p \in Procs :
       \/ Alone(p) /\ read_root(p)
       \/ \E u \in Usernames, pw \in Passwords : Alone(p) /\ login(p, u, pw)
       \/ \E u \in Usernames, sp \in SignupProfiles :
             Alone(p) /\ signup_get(p, u, sp)
       \/ Alone(p) /\ signup_set(p)
       \/ \E u \in Usernames, w \in WorkspaceNames, s \in States :
             Alone(p) /\ create_update_workspace_get(p, u, w, s)
       \/ Alone(p) /\ create_update_workspace_update(p)
       \/ \E u \in Usernames : Alone(p) /\ get_all_workspaces(p, u)
       \/ \E u \in Usernames, w \in WorkspaceNames :
             Alone(p) /\ delete_workspace_get(p, u, w)
       \/ Alone(p) /\ delete_workspace_update(p)

SeqSpec == Init /\ [][SeqNext]_vars

\* ------------------------------------------------------------- kinds of step
\* A request is begun and completed in one step: done' is that request.
ReturnsAtOnce == nreq' = nreq + 1 /\ pc' = pc

\* Process p begins a request and goes on to its store write: req'[p] is the request.
GoesOn(p) == pc[p] = "idle" /\ pc'[p] # "idle"

\* Process p makes its store write and completes req[p]: done' is that request.
Writes(p) == pc[p] # "idle" /\ pc'[p] = "idle"

Completes == ReturnsAtOnce \/ \E p \in Procs : Writes(p)

\* No store call of the completed request d failed.
Unfailed(d) == d.calls.failed = "none"

WorkspaceOps ==
    {"create_update_workspace", "get_all_workspaces", "delete_workspace"}

\* The store is written only by the step that completes a request, so in every
\* state the store is what the request in done left (and, for a request that
\* only reads, what it read).

\* ------------------------------------------------------------------- claims
C1_Step ==
    /\ (/\ ReturnsAtOnce
        /\ done'.req.op = "signup"
        /\ done'.req.username \notin DOMAIN store)
       => done'.calls.failed = "read"
    /\ \A p \in Procs :
          (Writes(p) /\ req[p].op = "signup") =>
             \/ /\ done'.calls.failed = "write"
                /\ store' = store
             \/ /\ done'.resp =
                      SignupResponse("success", "Account created successfully")
                /\ req[p].username \in DOMAIN store'
                /\ store'[req[p].username] =
                      [username |-> req[p].username,
                       password |-> req[p].password,
                       name |-> req[p].name, email |-> req[p].email,
                       workspaces |-> EmptyDict]

C1_Login ==
    (/\ prev.op = "signup"
     /\ done.req = LoginRequest(prev.username, prev.password)
     /\ Unfailed(done))
    => done.resp = LoginResponse("success", "Successful", Some(EmptyDict))

\* C1: a signup for a username without a document is stopped only by a failed
\* store call; otherwise it answers success and stores the account with an empty
\* workspaces map, and a login with the same username and password that is the
\* next request to complete answers success with the empty map.
C1_SignupThenLogin == []C1_Login /\ [][C1_Step]_vars

C1_Witness ==
    /\ prev.op = "signup"
    /\ done.req = LoginRequest(prev.username, prev.password)
    /\ done.resp = LoginResponse("success", "Successful", Some(EmptyDict))

C2_Step ==
    /\ (/\ ReturnsAtOnce
        /\ done'.req.op = "signup"
        /\ done'.req.username \in DOMAIN store
        /\ Unfailed(done'))
       => /\ done'.resp = SignupResponse("error", "Username already exists")
          /\ done'.resp.code = HTTP_OK
          /\ done'.calls.writes = 0
          /\ store' = store
    /\ \A p \in Procs :
          (GoesOn(p) /\ req'[p].op = "signup") =>
             req'[p].username \notin DOMAIN store

\* C2: a signup that finds a document for its username answers the body
\* status=error "Username already exists" with HTTP 200, makes no write and
\* leaves the store as it was; it never goes on to the store write.
C2_ExistingUsername == [][C2_Step]_vars

C2_Witness ==
    /\ done.req.op = "signup"
    /\ done.resp = SignupResponse("error", "Username already exists")
    /\ done.req.username \in DOMAIN store
    /\ store[done.req.username].password # done.req.password
    /\ store[done.req.username].workspaces # EmptyDict

\* C3: a login whose password differs from the stored one answers status=error
\* "Incorrect Password" with no workspaces, and a login response carries
\* workspaces only when the password equals the stored one.
C3_WrongPassword ==
    done.req.op = "login" =>
       LET u == done.req.username IN
       /\ (/\ u \in DOMAIN store
           /\ store[u].password # done.req.password
           /\ Unfailed(done))
          => done.resp = LoginResponse("error", "Incorrect Password", None)
       /\ (done.resp.kind = "LoginResponse" /\ done.resp.workspaces # None)
          => /\ u \in DOMAIN store
             /\ store[u].password = done.req.password
             /\ done.resp.workspaces = Some(store[u].workspaces)
       /\ done.resp.kind \in {"LoginResponse", "HTTPException"}

C3_Witness ==
    /\ done.req.op = "login"
    /\ done.resp = LoginResponse("error", "Incorrect Password", None)
    /\ store[done.req.username].workspaces # EmptyDict

C4_List ==
    (/\ prev.op = "create_update_workspace"
     /\ done.req = GetWorkspacesRequest(prev.username)
     /\ Unfailed(done))
    => /\ Succeeded(done.resp)
       /\ prev.workspace_name \in DOMAIN done.resp.workspaces
       /\ done.resp.workspaces[prev.workspace_name] = prev.state

C4_Step ==
    \A p \in Procs :
       (/\ Writes(p)
        /\ req[p].op = "create_update_workspace"
        /\ Succeeded(done'.resp)
        /\ Succeeded(done.resp)
        /\ done.req.op = "create_update_workspace"
        /\ done.req.username = req[p].username
        /\ done.req.workspace_name = req[p].workspace_name)
       => LET before == store[req[p].username].workspaces
              after == store'[req[p].username].workspaces
          IN /\ after[req[p].workspace_name] = req[p].state
             /\ Cardinality(DOMAIN after) = Cardinality(DOMAIN before)

\* C4: with one request at a time, a list that follows a successful upsert of
\* (W, S) returns W mapped to exactly S, and a successful upsert of (W, S2) that
\* follows a successful upsert of (W, S) leaves W mapped to exactly S2 and the
\* number of keys as it was.
C4_UpsertThenList == []C4_List /\ [][C4_Step]_vars

C4_Witness ==
    /\ prev.op = "create_update_workspace"
    /\ done.req.op = "create_update_workspace"
    /\ Succeeded(done.resp)
    /\ done.req.username = prev.username
    /\ done.req.workspace_name = prev.workspace_name
    /\ DOMAIN done.req.state \cap DOMAIN prev.state = {}
    /\ store[done.req.username].workspaces[done.req.workspace_name] =
          done.req.state

C5_Step ==
    /\ (/\ ReturnsAtOnce
        /\ done'.req.op = "delete_workspace"
        /\ done'.req.username \in DOMAIN store
        /\ Unfailed(done'))
       => /\ done'.req.workspace_name
                \notin DOMAIN store[done'.req.username].workspaces
          /\ done'.resp =
                HTTPException(HTTP_NOT_FOUND,
                    "Workspace '" \o done'.req.workspace_name \o "' not found")
          /\ done'.calls.writes = 0
          /\ store' = store
    /\ \A p \in Procs :
          (GoesOn(p) /\ req'[p].op = "delete_workspace") =>
             /\ req'[p].username \in DOMAIN store
             /\ req'[p].workspace_name
                   \in DOMAIN store[req'[p].username].workspaces
    /\ \A p \in Procs :
          (Writes(p) /\ req[p].op = "delete_workspace") =>
             \/ done'.calls.failed = "write"
             \/ done'.resp =
                   DeleteWorkspaceResponse("success",
                       "Workspace '" \o req[p].workspace_name
                           \o "' deleted successfully")

C5_List ==
    (/\ prev.op = "delete_workspace"
     /\ done.req = GetWorkspacesRequest(prev.username)
     /\ Unfailed(done))
    => /\ Succeeded(done.resp)
       /\ prev.workspace_name \notin DOMAIN done.resp.workspaces

\* C5: for an existing user, a delete of a name that is no key answers 404 with
\* the workspace message and makes no write; a delete of a key goes on to the
\* write and, unless a store call fails, answers success, and a list that is
\* the next request to complete does not contain the name.
C5_Delete == []C5_List /\ [][C5_Step]_vars

C5_Witness ==
    /\ prev.op = "delete_workspace"
    /\ done.req = GetWorkspacesRequest(prev.username)
    /\ Succeeded(done.resp)
    /\ prev.workspace_name \notin DOMAIN done.resp.workspaces

C6_Step ==
    /\ (/\ ReturnsAtOnce
        /\ done'.req.op \in WorkspaceOps \cup {"login"}
        /\ done'.req.username \notin DOMAIN store)
       => /\ store' = store
          /\ Unfailed(done') =>
                IF done'.req.op = "login"
                THEN /\ done'.resp =
                           LoginResponse("error", "Username not found", None)
                     /\ done'.resp.code = HTTP_OK
                ELSE done'.resp = HTTPException(HTTP_NOT_FOUND, "User not found")
    /\ \A p \in Procs :
          (GoesOn(p) /\ req'[p].op \in WorkspaceOps) =>
             req'[p].username \in DOMAIN store

\* C6: for a username without a document, upsert, list and delete answer 404
\* "User not found" and login answers HTTP 200 with status=error "Username not
\* found"; none of them goes on to a write and the store is left as it was.
C6_NoAccount == [][C6_Step]_vars

C6_Witness ==
    /\ done.req.op = "create_update_workspace"
    /\ done.resp = HTTPException(HTTP_NOT_FOUND, "User not found")
    /\ done.req.username \notin DOMAIN store
    /\ store # EmptyDict

C7_Step ==
    \A u \in DOMAIN store :
       /\ u \in DOMAIN store'
       /\ \A f \in {"username", "password", "name", "email"} :
             store'[u][f] = store[u][f]
       /\ store'[u].workspaces # store[u].workspaces =>
             \E p \in Procs :
                /\ Writes(p)
                /\ req[p].op \in {"create_update_workspace", "delete_workspace"}
                /\ req[p].username = u

\* C7: a document once created is never removed, its username, password, name
\* and email never change, and its workspaces change only by the write of an
\* upsert or a delete for that username.
C7_AccountImmutable == [][C7_Step]_vars

C8_Step ==
    \A p \in Procs :
       (/\ Writes(p)
        /\ req[p].op \in {"create_update_workspace", "delete_workspace"}
        /\ Succeeded(done'.resp))
       => store'[req[p].username].workspaces = local[p].workspaces

\* C8: the write of an upsert or a delete replaces the whole workspaces map by
\* the map the request computed from its own read, whatever has been written
\* since; so two successful upserts of different names can leave one name out.
C8_WholeMapOverwrite == [][C8_Step]_vars

C8_Witness ==
    /\ prev.op = "create_update_workspace"
    /\ done.req.op = "create_update_workspace"
    /\ Succeeded(done.resp)
    /\ done.req.username = prev.username
    /\ done.req.workspace_name # prev.workspace_name
    /\ prev.workspace_name \in DOMAIN acked[prev.username]
    /\ prev.workspace_name \notin DOMAIN store[prev.username].workspaces
    /\ done.req.workspace_name \in DOMAIN store[prev.username].workspaces

C9_Calls ==
    /\ done.calls.reads <= 1
    /\ done.calls.writes <= 1
    /\ done.calls.failed = "read" => done.calls.writes = 0
    /\ done.req.op \in {"login", "get_all_workspaces", "read_root"} =>
          done.calls.writes = 0
    /\ done.req.op # "none" =>
          (done.calls.failed # "none" <=> done.resp.code = HTTP_ERROR)
    /\ \A p \in Procs :
          pc[p] # "idle" => calls[p] = [reads |-> 1, writes |-> 0, failed |-> "none"]

C9_Step == (Completes /\ ~Unfailed(done')) => store' = store

\* C9: a request makes at most one read and at most one write; a failed store
\* call ends it at once with HTTP 500 and the store as it was, a failed read is
\* followed by no write, and a response is a 500 only when a store call failed
\* (the 404s stay 404s).
C9_StoreFailure == []C9_Calls /\ [][C9_Step]_vars

C9_Witness ==
    /\ done.req.op = "delete_workspace"
    /\ done.calls = [reads |-> 1, writes |-> 1, failed |-> "write"]
    /\ done.resp.code = HTTP_ERROR
    /\ done.req.workspace_name \in DOMAIN store[done.req.username].workspaces

C10_Step ==
    /\ \A p \in Procs :
          (/\ Writes(p)
           /\ req[p].op \in {"create_update_workspace", "delete_workspace"}
           /\ Succeeded(done'.resp))
          => LET u == req[p].username
                 before == store[u].workspaces
                 after == store'[u].workspaces
             IN /\ DOMAIN store' = DOMAIN store
                /\ \A v \in DOMAIN store \ {u} : store'[v] = store[v]
                /\ DOMAIN store'[u] = DOMAIN store[u]
                /\ \A f \in DOMAIN store[u] \ {"workspaces"} :
                      store'[u][f] = store[u][f]
                /\ DOMAIN after \ {req[p].workspace_name} =
                      DOMAIN before \ {req[p].workspace_name}
                /\ \A k \in DOMAIN before \ {req[p].workspace_name} :
                      after[k] = before[k]
    /\ (/\ Completes
        /\ done'.req.op \in {"login", "get_all_workspaces", "read_root"})
       => store' = store

\* C10: with one request at a time, a successful upsert or delete of (u, W)
\* changes nothing but the entry W of u's workspaces map, and login, list and
\* the root endpoint never change the store.
C10_Frame == [][C10_Step]_vars

C10_Witness ==
    /\ done.req.op = "create_update_workspace"
    /\ Succeeded(done.resp)
    /\ done.req.username = "alice"
    /\ done.req.workspace_name = "proj2"
    /\ "bob" \in DOMAIN store
    /\ DOMAIN store["alice"].workspaces = {"proj1", "proj2"}
    /\ store["alice"].workspaces["proj1"] = [x |-> 1]

====
